---- MODULE Spec2Model ----
(***************************************************************************)
(* Dining philosophers with binary semaphores and the asymmetric           *)
(* (even: right first, odd: left first) pick-up order of src/main.cpp.     *)
(*                                                                         *)
(* Each philosopher thread is a process whose position in the loop of      *)
(* philosopher() is pc[id]; each chopstick is the counter of its           *)
(* std::binary_semaphore.  main() launches the threads one at a time and   *)
(* then blocks in join() forever.                                          *)
(***************************************************************************)
EXTENDS Integers, FiniteSets, Sequences, TLC

\* constexpr int NUM_PHILOSOPHERS = 5
NUM_PHILOSOPHERS == 5

\* std::binary_semaphore is std::counting_semaphore<1>: the counter's maximum
SEM_MAX == 1

\* Largest ring size explored by SpecRing (the program recompiled with another
\* NUM_PHILOSOPHERS and as many semaphore initialisers).
MaxN == 6

VARIABLES
    n,           \* the ring size: NUM_PHILOSOPHERS of the build that runs
    chopsticks,  \* chopsticks[r]: counter of semaphore r (1 available, 0 taken)
    pc,          \* pc[id]: where thread id stands in philosopher()
    held,        \* held[id]: chopsticks whose acquire() returned to id and
                 \*           that id has not release()d since
    mainI        \* loop index i of main(): threads 0..mainI-1 are launched

vars == <<n, chopsticks, pc, held, mainI>>

Philosophers == 0 .. (n - 1)

Labels == {"notStarted", "think", "hungry", "acquireFirst", "acquireSecond",
           "eat", "releaseLeft", "releaseRight"}

----------------------------------------------------------------------------
\* const int leftChopstick = philosopherID
leftChopstick(id) == id

\* const int rightChopstick = (philosopherID + 1) % NUM_PHILOSOPHERS
rightChopstick(id) == (id + 1) % n

\* a philosopher that picks up its left chopstick first whatever its parity
FirstChopstickAlwaysLeft(id) == leftChopstick(id)

\* the chopstick of the first acquire() of the if/else on philosopherID % 2
FirstChopstick(id) ==
    IF id % 2 = 0 THEN rightChopstick(id) ELSE leftChopstick(id)

\* a second acquire() aimed at the chopstick one place further round the ring
SecondChopstickOffByOne(id) ==
    IF id % 2 = 0 THEN (leftChopstick(id) + n - 1) % n
                  ELSE (rightChopstick(id) + 1) % n

\* a second acquire() aimed at the chopstick already picked up
SecondChopstickSameAsFirst(id) == FirstChopstick(id)

\* the chopstick of the second acquire() of the if/else on philosopherID % 2
SecondChopstick(id) ==
    IF id % 2 = 0 THEN leftChopstick(id) ELSE rightChopstick(id)

\* an acquire() that returns without waiting for the counter
CanAcquireNoWait(r) == TRUE

\* binary_semaphore::acquire() returns only when the counter is positive
CanAcquire(r) == chopsticks[r] > 0

\* counter after acquire(): decremented by one
AcquiredCount(c) == c - 1

\* a release() that leaves the counter where it was
ReleasedCountStuck(c) == {c}

\* counter after release(): incremented by one; releasing at the maximum
\* violates release()'s precondition (undefined behaviour: the counter may
\* stay or overshoot)
ReleasedCount(c) == IF c < SEM_MAX THEN {c + 1} ELSE {c, c + 1}

\* chopsticks[r].acquire() by thread id
acquire(id, r) ==
    /\ CanAcquire(r)
    /\ chopsticks' = [chopsticks EXCEPT ![r] = AcquiredCount(@)]
    /\ held' = [held EXCEPT ![id] = @ \cup {r}]

\* chopsticks[r].release() by thread id: never waits
release(id, r) ==
    /\ \E c \in ReleasedCount(chopsticks[r]) :
          chopsticks' = [chopsticks EXCEPT ![r] = c]
    /\ held' = [held EXCEPT ![id] = @ \ {r}]

----------------------------------------------------------------------------
\* state once the globals are constructed and main() is entered
InitRing(size) ==
    /\ n = size
    /\ chopsticks = [r \in 0 .. (size - 1) |-> 1]
    /\ pc = [id \in 0 .. (size - 1) |-> "notStarted"]
    /\ held = [id \in 0 .. (size - 1) |-> {}]
    /\ mainI = 0

\* the program as built: five philosophers
Init == InitRing(NUM_PHILOSOPHERS)

\* the program built for any ring size from 2 to MaxN
InitAnyN == \E size \in 2 .. MaxN : InitRing(size)

\* main(): philosophers[i] = std::thread(philosopher, i, ...); then join()
\* which never returns
main ==
    /\ mainI < n
    /\ pc' = [pc EXCEPT ![mainI] = "think"]
    /\ mainI' = mainI + 1
    /\ UNCHANGED <<n, chopsticks, held>>

\* think() returns after its sleep
Think(id) ==
    /\ pc[id] = "think"
    /\ pc' = [pc EXCEPT ![id] = "hungry"]
    /\ UNCHANGED <<n, chopsticks, held, mainI>>

\* "is hungry and trying to pick up chopsticks."
Hungry(id) ==
    /\ pc[id] = "hungry"
    /\ pc' = [pc EXCEPT ![id] = "acquireFirst"]
    /\ UNCHANGED <<n, chopsticks, held, mainI>>

\* a first acquire() after which the philosopher goes straight to eat()
AcquireFirstThenEat(id) ==
    /\ pc[id] = "acquireFirst"
    /\ acquire(id, FirstChopstick(id))
    /\ pc' = [pc EXCEPT ![id] = "eat"]
    /\ UNCHANGED <<n, mainI>>

\* the first acquire() of the parity branch
AcquireFirst(id) ==
    /\ pc[id] = "acquireFirst"
    /\ acquire(id, FirstChopstick(id))
    /\ pc' = [pc EXCEPT ![id] = "acquireSecond"]
    /\ UNCHANGED <<n, mainI>>

\* the second acquire() of the parity branch; eat() starts when it returns
AcquireSecond(id) ==
    /\ pc[id] = "acquireSecond"
    /\ acquire(id, SecondChopstick(id))
    /\ pc' = [pc EXCEPT ![id] = "eat"]
    /\ UNCHANGED <<n, mainI>>

\* eat() returns after its sleep
Eat(id) ==
    /\ pc[id] = "eat"
    /\ pc' = [pc EXCEPT ![id] = "releaseLeft"]
    /\ UNCHANGED <<n, chopsticks, held, mainI>>

\* chopsticks[leftChopstick].release()
ReleaseLeft(id) ==
    /\ pc[id] = "releaseLeft"
    /\ release(id, leftChopstick(id))
    /\ pc' = [pc EXCEPT ![id] = "releaseRight"]
    /\ UNCHANGED <<n, mainI>>

\* a loop that goes back to think() without the second release()
ReleaseRightSkipped(id) ==
    /\ pc[id] = "releaseRight"
    /\ pc' = [pc EXCEPT ![id] = "think"]
    /\ UNCHANGED <<n, chopsticks, held, mainI>>

\* chopsticks[rightChopstick].release(), "put down chopsticks.", loop
ReleaseRight(id) ==
    /\ pc[id] = "releaseRight"
    /\ release(id, rightChopstick(id))
    /\ pc' = [pc EXCEPT ![id] = "think"]
    /\ UNCHANGED <<n, mainI>>

\* one step of thread id in while (true) { ... }
philosopher(id) ==
    \/ Think(id)
    \/ Hungry(id)
    \/ AcquireFirst(id)
    \/ AcquireSecond(id)
    \/ Eat(id)
    \/ ReleaseLeft(id)
    \/ ReleaseRight(id)

Next ==
    \/ main
    \/ \E id \in Philosophers : philosopher(id)

Spec == Init /\ [][Next]_vars

SpecRing == InitAnyN /\ [][Next]_vars

----------------------------------------------------------------------------
\* lifecycle states of thread id, read off its position in the loop

\* inside think()
IsThinking(id) == pc[id] = "think"

\* think() returned, first acquire() not yet returned
IsHungry(id) == pc[id] \in {"hungry", "acquireFirst"}

\* first acquire() returned, second not yet
IsHoldingOne(id) == pc[id] = "acquireSecond"

\* from the start of eat() until the first release()
IsEating(id) == pc[id] \in {"eat", "releaseLeft"}

\* the chopstick of the acquire() call thread id stands at, if any
PendingAcquire(id) ==
    IF pc[id] = "acquireFirst" THEN {FirstChopstick(id)}
    ELSE IF pc[id] = "acquireSecond" THEN {SecondChopstick(id)}
    ELSE {}

\* the chopstick of the release() call thread id stands at, if any
PendingRelease(id) ==
    IF pc[id] = "releaseLeft" THEN {leftChopstick(id)}
    ELSE IF pc[id] = "releaseRight" THEN {rightChopstick(id)}
    ELSE {}

\* thread id is suspended inside acquire()
BlockedInAcquire(id) == \E r \in PendingAcquire(id) : ~CanAcquire(r)

Holders(r) == {id \in Philosophers : r \in held[id]}

----------------------------------------------------------------------------
\* C1  Mutual exclusion: in every reachable state each chopstick is held by
\* at most one philosopher (held: from the return of acquire() to release()).
MutualExclusion == \A r \in Philosophers : Cardinality(Holders(r)) <= 1

\* a chopstick is held by one philosopher while its other neighbour is
\* suspended in acquire() on it
MutualExclusionWitness ==
    \E r \in Philosophers : \E a, b \in Philosophers :
        /\ a # b
        /\ r \in held[a]
        /\ r \in PendingAcquire(b)

\* C2  No simultaneous adjacent eating: philosophers id and (id+1) mod N are
\* never both between the start of eat() and their first release().
NoAdjacentEating ==
    \A id \in Philosophers : ~(IsEating(id) /\ IsEating((id + 1) % n))

\* a philosopher eats while both of its neighbours wait in acquire() for the
\* chopsticks it holds
NoAdjacentEatingWitness ==
    \E id \in Philosophers :
        /\ pc[id] = "eat"
        /\ BlockedInAcquire((id + 1) % n)
        /\ BlockedInAcquire((id + n - 1) % n)

\* C3  Deadlock freedom, for every ring size 2..MaxN: the philosophers are
\* never all suspended in acquire(), and once a thread is launched some
\* philosopher always has an enabled step.
DeadlockFreedom ==
    /\ ~(\A id \in Philosophers : BlockedInAcquire(id))
    /\ (mainI > 0 => \E id \in Philosophers : ENABLED philosopher(id))

\* in the ring of five, four philosophers are suspended in acquire() at once
\* and only the fifth can move
DeadlockFreedomWitness ==
    /\ n = 5
    /\ Cardinality({id \in Philosophers : BlockedInAcquire(id)}) = 4

----------------------------------------------------------------------------
\* The five threads of the program as built (a constant set, for fairness).
Threads == 0 .. (NUM_PHILOSOPHERS - 1)

\* The operating system's scheduler: main() and every thread that stays
\* runnable eventually take their step.  std::binary_semaphore promises no
\* order among the threads waiting in acquire(), so nothing stronger holds.
FairSpec ==
    /\ Spec
    /\ WF_vars(main)
    /\ \A id \in Threads : WF_vars(philosopher(id))

\* A semaphore that never passes over a waiter for ever: a thread whose
\* chopstick is available again and again eventually acquires it.
StrongAcquire ==
    \A id \in Threads :
        SF_vars(AcquireFirst(id) \/ AcquireSecond(id))

\* C4 as stated  Progress: under the fair scheduler every philosopher is
\* Thinking, Hungry and Eating infinitely often, and whenever it is Hungry it
\* eventually eats.
Progress ==
    \A id \in Threads :
        /\ []<>IsThinking(id)
        /\ []<>IsHungry(id)
        /\ []<>IsEating(id)
        /\ (IsHungry(id) ~> IsEating(id))

\* C4  Progress, amended: if moreover each semaphore is strongly fair to the
\* threads waiting in acquire(), every philosopher is Thinking, Hungry and
\* Eating infinitely often and every Hungry philosopher eventually eats.
ProgressUnderStrongAcquire == StrongAcquire => Progress

\* a Hungry philosopher waits in acquire() for a chopstick that its neighbour
\* holds while eating
ProgressWitness ==
    \E id \in Threads : \E r \in PendingAcquire(id) :
        /\ pc[id] = "acquireFirst"
        /\ \E other \in Threads : r \in held[other] /\ pc[other] = "eat"

----------------------------------------------------------------------------
\* C5  Acquisition order, for every ring size 2..MaxN: each acquire() that
\* returns to an even philosopher id adds (id+1) mod N to an empty hand or id
\* to a hand holding exactly (id+1) mod N; for an odd philosopher it adds id
\* to an empty hand or (id+1) mod N to a hand holding exactly id; and a
\* philosopher waiting for its second chopstick holds exactly its first.
AcquisitionOrder ==
    /\ [](\A id \in Philosophers :
            IsHoldingOne(id) =>
                held[id] = IF id % 2 = 0 THEN {(id + 1) % n} ELSE {id})
    /\ [][\A id \in Philosophers :
            (held'[id] # held[id] /\ held[id] \subseteq held'[id]) =>
                IF id % 2 = 0
                THEN \/ held[id] = {} /\ held'[id] = {(id + 1) % n}
                     \/ held[id] = {(id + 1) % n}
                            /\ held'[id] = {id, (id + 1) % n}
                ELSE \/ held[id] = {} /\ held'[id] = {id}
                     \/ held[id] = {id}
                            /\ held'[id] = {id, (id + 1) % n}]_vars

\* in the ring of five, philosopher 1 holds chopstick 1 and waits for
\* chopstick 2 held by philosopher 2, while philosopher 0 waits for
\* chopstick 1
AcquisitionOrderWitness ==
    /\ n = 5
    /\ pc[1] = "acquireSecond" /\ held[1] = {1}
    /\ pc[0] = "acquireFirst"
    /\ 2 \in held[2]

\* C6 as stated  Release restores availability: when a philosopher completes
\* its second release(), both of its chopsticks are available.
ReleaseRestoresBoth ==
    [][\A id \in Philosophers :
        (pc[id] = "releaseRight" /\ pc'[id] = "think") =>
            /\ chopsticks'[id] = 1
            /\ chopsticks'[(id + 1) % n] = 1]_vars

\* C6  Release restores availability, amended: each release() leaves the
\* released chopstick available; when a philosopher completes its second
\* release() it holds nothing, its right chopstick is available, and its
\* left chopstick is available or held by its left neighbour, which may
\* have acquired it between the two release() calls.
ReleaseLeavesNoResidualHold ==
    [][\A id \in Philosophers :
        /\ (pc[id] = "releaseLeft" /\ pc'[id] = "releaseRight") =>
              /\ chopsticks'[id] = 1
              /\ held'[id] = {(id + 1) % n}
        /\ (pc[id] = "releaseRight" /\ pc'[id] = "think") =>
              /\ held'[id] = {}
              /\ chopsticks'[(id + 1) % n] = 1
              /\ \/ chopsticks'[id] = 1
                 \/ chopsticks'[id] = 0 /\ Holders(id)' = {(id + n - 1) % n}]_vars

\* a philosopher stands between its two release() calls and its left
\* neighbour has already acquired the chopstick released first
ReleaseWitness ==
    \E id \in Philosophers :
        /\ pc[id] = "releaseRight"
        /\ id \in held[(id + n - 1) % n]

\* C7  Eating requires both: a philosopher between the start of eat() and
\* its first release() holds exactly chopsticks id and (id+1) mod N, and both
\* semaphores are taken.
EatingHoldsBoth ==
    \A id \in Philosophers :
        IsEating(id) =>
            /\ held[id] = {id, (id + 1) % n}
            /\ chopsticks[id] = 0
            /\ chopsticks[(id + 1) % n] = 0

\* two philosophers are inside eat() at once
EatingHoldsBothWitness ==
    \E a, b \in Philosophers : a # b /\ pc[a] = "eat" /\ pc[b] = "eat"

\* C8  Overlap is permitted: philosophers that eat at the same time are never
\* ring neighbours and are at most N div 2, and for N = 5 that many (two
\* non-adjacent philosophers) do eat at the same time (OverlapReached).
OverlapBound ==
    LET eaters == {id \in Philosophers : IsEating(id)}
    IN  /\ Cardinality(eaters) <= n \div 2
        /\ \A a, b \in eaters :
              a # b => (b # (a + 1) % n /\ a # (b + 1) % n)

\* in the ring of five, two non-adjacent philosophers are inside eat()
OverlapReached ==
    /\ n = 5
    /\ \E a, b \in Philosophers :
          /\ a # b
          /\ b # (a + 1) % n
          /\ a # (b + 1) % n
          /\ pc[a] = "eat"
          /\ pc[b] = "eat"

\* C9  No protocol violation, for every ring size 2..MaxN: a philosopher
\* standing at release() holds the chopstick it releases, and a philosopher
\* standing at acquire() does not already hold the chopstick it asks for.
NoProtocolViolation ==
    \A id \in Philosophers :
        /\ PendingRelease(id) \subseteq held[id]
        /\ PendingAcquire(id) \cap held[id] = {}

\* one philosopher stands at its second release() holding that chopstick
\* while another stands at its second acquire() holding its first
NoProtocolViolationWitness ==
    \E a, b \in Philosophers :
        /\ pc[a] = "releaseRight" /\ held[a] = PendingRelease(a)
        /\ pc[b] = "acquireSecond" /\ Cardinality(held[b]) = 1

----------------------------------------------------------------------------
\* C11  For every ring size 2..MaxN the philosophers are never all holding
\* their first chopstick while waiting for the second: at most N-1 of them
\* stand at the second acquire() at once.
NotAllHoldingOne ==
    Cardinality({id \in Philosophers : IsHoldingOne(id)}) <= n - 1

\* in the ring of three, two of the three philosophers (all but one) hold
\* their first chopstick and wait for the second
NotAllHoldingOneWitness ==
    /\ n = 3
    /\ Cardinality({id \in Philosophers :
                       IsHoldingOne(id) /\ Cardinality(held[id]) = 1}) = 2

----------------------------------------------------------------------------
\* the lifecycle state of thread id; Eating lasts until both release() calls
\* have completed
Lifecycle(id) ==
    IF pc[id] = "notStarted" THEN "NotStarted"
    ELSE IF IsThinking(id) THEN "Thinking"
    ELSE IF IsHungry(id) THEN "Hungry"
    ELSE IF IsHoldingOne(id) THEN "HoldingOne"
    ELSE "Eating"

\* C12  Lifecycle order: a launched philosopher starts in Thinking and its
\* lifecycle state changes only Thinking -> Hungry -> HoldingOne -> Eating ->
\* Thinking; and no position of the loop is terminal: a launched philosopher
\* always has an enabled step or is suspended in acquire().
LifecycleOrder ==
    /\ [][\A id \in Philosophers :
            Lifecycle(id)' # Lifecycle(id) =>
                <<Lifecycle(id), Lifecycle(id)'>> \in
                    {<<"NotStarted", "Thinking">>,
                     <<"Thinking", "Hungry">>,
                     <<"Hungry", "HoldingOne">>,
                     <<"HoldingOne", "Eating">>,
                     <<"Eating", "Thinking">>}]_vars
    /\ [](\A id \in Philosophers :
            pc[id] # "notStarted" =>
                (ENABLED philosopher(id)) \/ BlockedInAcquire(id))

\* a philosopher is back in think() while a neighbour that waited for its
\* chopstick now eats with it, and another philosopher is in each of the
\* other lifecycle states
LifecycleOrderWitness ==
    /\ \E id \in Philosophers :
          /\ IsThinking(id)
          /\ id \in held[(id + n - 1) % n]
          /\ pc[(id + n - 1) % n] = "eat"
    /\ \E id \in Philosophers : IsHungry(id)
    /\ \E id \in Philosophers : IsHoldingOne(id)

----------------------------------------------------------------------------
\* C13  No holding across iterations: a philosopher inside think(), or
\* hungry and not yet returned from its first acquire(), holds no chopstick.
\* In particular the step that loops back to think() leaves the hand empty.
EmptyHandedUntilFirstAcquire ==
    /\ [](\A id \in Philosophers :
            (IsThinking(id) \/ IsHungry(id)) => held[id] = {})
    /\ [][\A id \in Philosophers :
            (pc[id] = "releaseRight" /\ pc'[id] = "think") =>
                held'[id] = {}]_vars

\* a philosopher thinks empty-handed while each of its two chopsticks is in
\* the hand of the neighbour it shares it with
EmptyHandedWitness ==
    \E id \in Philosophers :
        /\ IsThinking(id)
        /\ held[id] = {}
        /\ id \in held[(id + n - 1) % n]
        /\ (id + 1) % n \in held[(id + 1) % n]

----------------------------------------------------------------------------
\* C14  Suspension only at acquire: a philosopher standing at think(), the
\* hungry announcement, eat() or either release() always has its step
\* enabled, and a launched philosopher without an enabled step stands at an
\* acquire() whose chopstick is held by another philosopher.
SuspensionOnlyAtAcquire ==
    \A id \in Philosophers :
        /\ pc[id] = "think" => ENABLED Think(id)
        /\ pc[id] = "hungry" => ENABLED Hungry(id)
        /\ pc[id] = "eat" => ENABLED Eat(id)
        /\ pc[id] = "releaseLeft" => ENABLED ReleaseLeft(id)
        /\ pc[id] = "releaseRight" => ENABLED ReleaseRight(id)
        /\ (pc[id] # "notStarted" /\ ~ENABLED philosopher(id)) =>
              \E r \in PendingAcquire(id) :
                  \E other \in Philosophers \ {id} : r \in held[other]

\* one philosopher is suspended in acquire() while the holder of the
\* chopstick it waits for stands at release() of that chopstick
SuspensionWitness ==
    \E id, other \in Philosophers :
        /\ id # other
        /\ ~ENABLED philosopher(id)
        /\ PendingAcquire(id) # {}
        /\ PendingAcquire(id) = PendingRelease(other)

----------------------------------------------------------------------------
\* C15  Pairwise confinement, for every ring size 2..MaxN: a step of
\* philosopher id changes no semaphore other than id and (id+1) mod N and no
\* other philosopher's position or hand; and chopstick r is only ever held by
\* philosopher r or philosopher (r-1) mod N.
PairwiseConfinement ==
    /\ [][\A id \in Philosophers :
            philosopher(id) =>
                /\ \A r \in Philosophers \ {id, (id + 1) % n} :
                       chopsticks'[r] = chopsticks[r]
                /\ \A other \in Philosophers \ {id} :
                       pc'[other] = pc[other] /\ held'[other] = held[other]]_vars
    /\ [](\A r \in Philosophers : Holders(r) \subseteq {r, (r + n - 1) % n})

\* in the ring of five, chopstick 0 is held by philosopher 4 and chopstick 1
\* by philosopher 1, while philosopher 0, which shares both, waits
PairwiseConfinementWitness ==
    /\ n = 5
    /\ Holders(0) = {4}
    /\ Holders(1) = {1}
    /\ pc[0] = "acquireFirst"

----------------------------------------------------------------------------
\* The loop with the two release() calls in the other order: after eat() the
\* philosopher may release right then left instead of left then right.

\* eat() returns; the right chopstick is to be released first
EatThenRightFirst(id) ==
    /\ pc[id] = "eat"
    /\ pc' = [pc EXCEPT ![id] = "releaseRightFirst"]
    /\ UNCHANGED <<n, chopsticks, held, mainI>>

\* chopsticks[rightChopstick].release() as the first release
ReleaseRightFirst(id) ==
    /\ pc[id] = "releaseRightFirst"
    /\ release(id, rightChopstick(id))
    /\ pc' = [pc EXCEPT ![id] = "releaseLeftSecond"]
    /\ UNCHANGED <<n, mainI>>

\* chopsticks[leftChopstick].release() as the second release, then loop
ReleaseLeftSecond(id) ==
    /\ pc[id] = "releaseLeftSecond"
    /\ release(id, leftChopstick(id))
    /\ pc' = [pc EXCEPT ![id] = "think"]
    /\ UNCHANGED <<n, mainI>>

\* one step of thread id when either release order may be taken
philosopherEitherOrder(id) ==
    \/ philosopher(id)
    \/ EatThenRightFirst(id)
    \/ ReleaseRightFirst(id)
    \/ ReleaseLeftSecond(id)

NextEitherOrder ==
    \/ main
    \/ \E id \in Philosophers : philosopher(id)
    \/ \E id \in Philosophers : EatThenRightFirst(id)
    \/ \E id \in Philosophers : ReleaseRightFirst(id)
    \/ \E id \in Philosophers : ReleaseLeftSecond(id)

\* the program with each Release step taken in either order
SpecEitherOrder == InitAnyN /\ [][NextEitherOrder]_vars

\* from the start of eat() until the first release(), whichever comes first
IsEatingEitherOrder(id) == IsEating(id) \/ pc[id] = "releaseRightFirst"

\* C16  Release-order independence, for every ring size 2..MaxN: when each
\* philosopher releases left then right or right then left, every chopstick
\* still has at most one holder, ring neighbours still never eat together,
\* and the philosophers are still never all suspended in acquire() (some
\* launched philosopher always has an enabled step).
ReleaseOrderIndependence ==
    /\ \A r \in Philosophers : Cardinality(Holders(r)) <= 1
    /\ \A id \in Philosophers :
          ~(IsEatingEitherOrder(id) /\ IsEatingEitherOrder((id + 1) % n))
    /\ ~(\A id \in Philosophers : BlockedInAcquire(id))
    /\ (mainI > 0 =>
          \E id \in Philosophers : ENABLED philosopherEitherOrder(id))

\* a philosopher that released its right chopstick first still holds its
\* left one while its right neighbour already eats with the released one,
\* and its left neighbour waits for the one still held
ReleaseOrderWitness ==
    \E id \in Philosophers :
        /\ pc[id] = "releaseLeftSecond"
        /\ held[id] = {id}
        /\ pc[(id + 1) % n] = "eat"
        /\ id \in PendingAcquire((id + n - 1) % n)

----------------------------------------------------------------------------
\* C17  Bounded holding while eating: for each thread, if its own steps are
\* weakly fair then, whatever the other threads do, once it is inside eat()
\* it eventually is back in think() holding no chopstick.
EatingEndsEmptyHanded ==
    \A id \in Threads :
        WF_vars(philosopher(id)) =>
            (pc[id] = "eat" ~> (pc[id] = "think" /\ held[id] = {}))

\* a philosopher is inside eat() while the four others are suspended in
\* acquire()
EatingEndsWitness ==
    \E id \in Threads :
        /\ pc[id] = "eat"
        /\ \A other \in Threads \ {id} : BlockedInAcquire(other)

----------------------------------------------------------------------------
\* C18  Semaphore count bound, for every ring size 2..MaxN: each chopstick's
\* counter is 0 or 1, and it is 0 exactly when some philosopher holds that
\* chopstick.
CountMatchesHolder ==
    \A r \in Philosophers :
        /\ chopsticks[r] \in {0, 1}
        /\ (chopsticks[r] = 0) <=> (Holders(r) # {})

\* a philosopher between its two release() calls: the chopstick it released
\* is back at 1 with no holder, the one it still holds is at 0
CountMatchesHolderWitness ==
    \E id \in Philosophers :
        /\ pc[id] = "releaseRight"
        /\ chopsticks[id] = 1 /\ Holders(id) = {}
        /\ chopsticks[(id + 1) % n] = 0 /\ Holders((id + 1) % n) = {id}

----------------------------------------------------------------------------
\* C19  Global progress under weak fairness: with weakly fair threads and no
\* fairness among a semaphore's waiters, whenever some philosopher is Hungry
\* or HoldingOne some philosopher eventually is inside eat(), and a second
\* acquire() returns (a philosopher enters Eating) infinitely often.
GlobalProgress ==
    /\ (\E id \in Threads : IsHungry(id) \/ IsHoldingOne(id))
          ~> (\E id \in Threads : pc[id] = "eat")
    /\ []<><<\E id \in Threads : AcquireSecond(id)>>_vars

\* all five philosophers are Hungry or HoldingOne, none eats, and three of
\* them are suspended in acquire()
GlobalProgressWitness ==
    /\ \A id \in Threads : IsHungry(id) \/ IsHoldingOne(id)
    /\ Cardinality({id \in Threads : BlockedInAcquire(id)}) = 3

TypeOK ==
    /\ n \in 2 .. (MaxN + 1)
    /\ chopsticks \in [Philosophers -> 0 .. SEM_MAX]
    /\ pc \in [Philosophers -> Labels]
    /\ held \in [Philosophers -> SUBSET Philosophers]
    /\ mainI \in 0 .. n
====
